---- MODULE Spec2Model ----
(***************************************************************************)
(* Model of WayLook's scan server (src/server.py): the /api/scan route,    *)
(* its SSE generator generate(), the snapshot directory client             *)
(* fetch_snapshots() and the zone scanner extract_data().                  *)
(*                                                                         *)
(* Python strings that the code indexes or searches are sequences of       *)
(* one-character strings; strings the code only copies are TLA+ strings.   *)
(* The query parameters year and limit only shape the directory query and  *)
(* are left out: the directory's answer is an input of the model.          *)
(***************************************************************************)
EXTENDS Integers, Sequences, FiniteSets, TLC

VARIABLES
    pc,          \* position of the request: route handler, generator line, or end
    request,     \* the query parameters read by scan()
    httpStatus,  \* status of the HTTP response returned by scan() (0: none yet)
    httpBody,    \* what that response carries
    cdxAnswer,   \* history: what the directory answered
    snapshots,   \* generate(): the list returned by fetch_snapshots
    idx,         \* generate(): 1-based position of the loop over snapshots
    found_any,   \* generate(): the found_any flag
    todo,        \* generate(): matches of the current capture not yet yielded
    pending,     \* events yielded by the generator, not yet written by the server
    emitted,     \* history: every event the generator yielded, in order
    owner,       \* history: for each emitted event, the loop position that yielded it
    received,    \* history: the events written to a connected client
    connected,   \* the client still holds the connection
    observed,    \* the server has seen the disconnect and closed the generator
    cdxCalls,    \* history: number of directory queries issued
    fetchLog,    \* history: loop positions whose capture fetch was started
    skipped,     \* history: loop positions whose fetch or scan failed
    faultAt,     \* history: line of the pipeline-level fault, 0 if none
    scanned,     \* history: for each scanned capture, the list extract_data returned
    input,       \* a direct call of fetch_snapshots or extract_data: its arguments
    output       \* what that call returned

vars == <<pc, request, httpStatus, httpBody, cdxAnswer, snapshots, idx, found_any, todo, pending,
          emitted, owner, received, connected, observed, cdxCalls, fetchLog,
          skipped, faultAt, scanned, input, output>>

(***************************************************************************)
(* Bounds                                                                  *)
(***************************************************************************)
MaxRows == 2      \* data rows in a directory answer
MaxHay == 3       \* characters of a zone text given to extract_data directly
MaxKeyword == 2   \* characters of a keyword given to extract_data directly
MaxNodes == 2     \* nodes of a document given to extract_data directly

(***************************************************************************)
(* Text helpers                                                            *)
(***************************************************************************)
Min(a, b) == IF a < b THEN a ELSE b
Max(a, b) == IF a > b THEN a ELSE b

IsSpace(c) == c \in {" ", "\n"}

Lower(c) == IF c = "K" THEN "k" ELSE IF c = "X" THEN "x" ELSE c

\* s[a:b] of Python, a and b 0-based offsets with 0 <= a, b <= len(s)
Slice(s, a, b) == SubSeq(s, a + 1, b)

RECURSIVE LStrip(_)
LStrip(s) == IF s # <<>> /\ IsSpace(Head(s)) THEN LStrip(Tail(s)) ELSE s

RECURSIVE RStrip(_)
RStrip(s) ==
    IF s # <<>> /\ IsSpace(s[Len(s)]) THEN RStrip(SubSeq(s, 1, Len(s) - 1)) ELSE s

\* str.strip()
Strip(s) == LStrip(RStrip(s))

\* str.replace('\n', ' ')
ReplaceNewlines(s) == [k \in 1..Len(s) |-> IF s[k] = "\n" THEN " " ELSE s[k]]

\* re.sub(r'\s+', ' ', s)
RECURSIVE CollapseWhitespace(_)
CollapseWhitespace(s) ==
    IF s = <<>> THEN <<>>
    ELSE IF IsSpace(Head(s))
         THEN <<" ">> \o CollapseWhitespace(LStrip(s))
         ELSE <<Head(s)>> \o CollapseWhitespace(Tail(s))

\* the pattern re.escape(keyword) with re.IGNORECASE matches hay at 1-based p
MatchesAt(hay, kw, p) ==
    /\ p + Len(kw) - 1 <= Len(hay)
    /\ \A k \in 1..Len(kw) : Lower(hay[p + k - 1]) = Lower(kw[k])

\* pattern.finditer(hay): 1-based starts of the non-overlapping matches, left
\* to right; an empty pattern matches at every position, the end included
RECURSIVE FindFrom_overlapping(_, _, _)
RECURSIVE FindFrom(_, _, _)
FindFrom_overlapping(hay, kw, p) ==
    IF p + Len(kw) - 1 > Len(hay) THEN <<>>
    ELSE IF MatchesAt(hay, kw, p)
         THEN <<p>> \o FindFrom_overlapping(hay, kw, p + 1)
         ELSE FindFrom_overlapping(hay, kw, p + 1)

FindFrom(hay, kw, p) ==
    IF p + Len(kw) - 1 > Len(hay) THEN <<>>
    ELSE IF MatchesAt(hay, kw, p)
         THEN <<p>> \o FindFrom(hay, kw, p + Max(Len(kw), 1))
         ELSE FindFrom(hay, kw, p + 1)

finditer(hay, kw) == FindFrom(hay, kw, 1)

\* "sub in s" of Python
Contains(s, sub) ==
    \E p \in 1..(Len(s) + 1) :
        /\ p + Len(sub) - 1 <= Len(s)
        /\ \A k \in 1..Len(sub) : s[p + k - 1] = sub[k]

(***************************************************************************)
(* Snapshot directory client                                               *)
(***************************************************************************)
\* Rows of a directory answer, as response.json() parses them: a JSON array
\* of fields, a JSON number (len(row) raises TypeError), or a JSON object
\* with the given values (len(row) counts its keys, row[0] raises KeyError).
HeaderRow == [t |-> "list", v |-> <<"timestamp", "original">>]
Row1 == [t |-> "list", v |-> <<"20200101000000", "example.com/">>]
Row2 == [t |-> "list", v |-> <<"20210101000000", "example.com/login">>]
ShortRow == [t |-> "list", v |-> <<"20220101000000">>]
NumRow == [t |-> "num", v |-> <<>>]

DataRows == {Row1, Row2, ShortRow, NumRow}

EmptyFieldsRow == [t |-> "list", v |-> <<"", "">>]
LongRow == [t |-> "list", v |-> <<"20230101000000", "example.com/a", "text/html">>]
ObjectRow == [t |-> "dict", v |-> <<"20240101000000", "example.com/b">>]

\* rows of the answers given to fetch_snapshots when it is called directly
ProbeRows == DataRows \cup {HeaderRow, EmptyFieldsRow, LongRow, ObjectRow}

RECURSIVE SeqsUpTo(_, _)
SeqsUpTo(S, n) ==
    IF n = 0 THEN {<<>>}
    ELSE LET shorter == SeqsUpTo(S, n - 1)
         IN  shorter \cup {Append(q, x) : q \in {r \in shorter : Len(r) = n - 1}, x \in S}

\* What the index can answer to requests.get(CDX_API, ...)
CdxResponses ==
    {[kind |-> k, rows |-> <<>>] : k \in {"exception", "status", "badjson", "object"}}
    \cup {[kind |-> "list", rows |-> <<>>]}
    \cup {[kind |-> "list", rows |-> <<h>> \o d] :
            h \in {HeaderRow, Row1}, d \in SeqsUpTo(DataRows, MaxRows)}

\* len(row) or row[0] raises for this row
RowRaises(row) == row.t = "num" \/ (row.t = "dict" /\ Len(row.v) >= 2)

RECURSIVE MapRows(_)
MapRows(rows) ==
    IF rows = <<>> THEN <<>>
    ELSE LET row == Head(rows)
         IN  (IF Len(row.v) >= 2
              THEN <<[timestamp |-> row.v[1], original |-> row.v[2]]>>
              ELSE <<>>) \o MapRows(Tail(rows))

\* a fetch_snapshots that does not skip the first row
fetch_snapshots_try_all(resp) ==
    IF resp.kind \in {"exception", "badjson"} THEN [raised |-> TRUE, value |-> <<>>]
    ELSE IF resp.kind = "status" THEN [raised |-> FALSE, value |-> <<>>]
    ELSE IF resp.kind # "list" \/ Len(resp.rows) <= 1 THEN [raised |-> FALSE, value |-> <<>>]
    ELSE IF \E k \in 1..Len(resp.rows) : RowRaises(resp.rows[k])
         THEN [raised |-> TRUE, value |-> <<>>]
         ELSE [raised |-> FALSE, value |-> MapRows(resp.rows)]

\* the body of the try block: what it returns, or that it raised
fetch_snapshots_try(resp) ==
    IF resp.kind \in {"exception", "badjson"} THEN [raised |-> TRUE, value |-> <<>>]
    ELSE IF resp.kind = "status" THEN [raised |-> FALSE, value |-> <<>>]
    ELSE IF resp.kind # "list" \/ Len(resp.rows) <= 1 THEN [raised |-> FALSE, value |-> <<>>]
    ELSE IF \E k \in 2..Len(resp.rows) : RowRaises(resp.rows[k])
         THEN [raised |-> TRUE, value |-> <<>>]
         ELSE [raised |-> FALSE, value |-> MapRows(Tail(resp.rows))]

\* a fetch_snapshots without its except clause
fetch_snapshots_uncaught(resp) == fetch_snapshots_try(resp)

fetch_snapshots(resp) ==
    LET r == fetch_snapshots_try(resp)
    IN  IF r.raised THEN [raised |-> FALSE, value |-> <<>>] ELSE r

(***************************************************************************)
(* Zone scanner                                                            *)
(***************************************************************************)
CONTEXT_CHARS == 30

ArchiveHost == <<"a", "r", "c", "h", "i", "v", "e", ".", "o", "r", "g">>
ArchivedMarker == <<"F", "I", "L", "E", " ", "A", "R", "C", "H", "I", "V", "E", "D",
                    " ", "O", "N">>
ToolbarIds == {"wm-ipp-base", "wm-ipp", "donato"}

\* A parsed document: the nodes of <body> in document order.  tag is "text"
\* (a text node of an ordinary element), "script" or "comment"; id is the id
\* of the enclosing element; src the script's src attribute (<<>>: none).
Node(tag, id, src, s) == [tag |-> tag, id |-> id, src |-> src, s |-> s]

PagePlain == <<Node("text", "main", <<>>, <<"x", "x">>)>>
PageText == <<Node("text", "main", <<>>, <<"a", " ", "k", "\n">>)>>
PageAll ==
    <<Node("text", "main", <<>>, <<"x", " ", "k">>),
      Node("script", "", <<>>, <<"\n", "K", "x">>),
      Node("comment", "", <<>>, <<" ", "k", " ">>)>>
PageArchive ==
    <<Node("text", "wm-ipp", <<>>, <<"k">>),
      Node("script", "", <<"/", "/">> \o ArchiveHost \o <<"/", "j">>, <<"k">>),
      Node("comment", "", <<>>, <<"k", " ">> \o ArchivedMarker)>>

\* What BeautifulSoup(html, 'lxml') makes of response.text: a document, or
\* an exception raised by the parser
Pages ==
    {[parsed |-> TRUE, nodes |-> n] : n \in {PagePlain, PageText, PageAll, PageArchive}}
    \cup {[parsed |-> FALSE, nodes |-> <<>>]}

\* an element that lines 70-76 decompose: a toolbar element or one of the
\* archive's own scripts
IsInjected_idsOnly(n) ==
    n.id \in ToolbarIds

IsInjected(n) ==
    \/ n.id \in ToolbarIds
    \/ n.tag = "script" /\ n.src # <<>> /\ Contains(n.src, ArchiveHost)

RECURSIVE Cleanup(_)
Cleanup(nodes) ==
    IF nodes = <<>> THEN <<>>
    ELSE (IF IsInjected(Head(nodes)) THEN <<>> ELSE <<Head(nodes)>>)
         \o Cleanup(Tail(nodes))

\* body.get_text(separator=' ', strip=True)
RECURSIVE JoinStripped_withScripts(_)
JoinStripped_withScripts(nodes) ==
    IF nodes = <<>> THEN <<>>
    ELSE LET s == IF Head(nodes).tag \in {"text", "script"}
                  THEN Strip(Head(nodes).s) ELSE <<>>
             rest == JoinStripped_withScripts(Tail(nodes))
         IN  IF s = <<>> THEN rest
             ELSE IF rest = <<>> THEN s
             ELSE s \o <<" ">> \o rest

RECURSIVE JoinStripped(_)
JoinStripped(nodes) ==
    IF nodes = <<>> THEN <<>>
    ELSE LET s == IF Head(nodes).tag = "text" THEN Strip(Head(nodes).s) ELSE <<>>
             rest == JoinStripped(Tail(nodes))
         IN  IF s = <<>> THEN rest
             ELSE IF rest = <<>> THEN s
             ELSE s \o <<" ">> \o rest

TextContent(nodes) == CollapseWhitespace(JoinStripped(nodes))

\* text[start:end] around the occurrence at 1-based p
Window(text, kw, p) ==
    Slice(text, Max(0, (p - 1) - CONTEXT_CHARS),
                Min(Len(text), (p - 1) + Len(kw) + CONTEXT_CHARS))

Ellipsis == <<".", ".", ".">>

MakeMatch(timestamp, archive_url, type, snippet) ==
    [timestamp |-> timestamp, archiveUrl |-> archive_url,
     matchType |-> type, snippet |-> snippet]

SnippetText(text, kw, p) == Ellipsis \o ReplaceNewlines(Window(text, kw, p)) \o Ellipsis
SnippetJs(text, kw, p) == Ellipsis \o Strip(ReplaceNewlines(Window(text, kw, p))) \o Ellipsis
SnippetComment(text, kw, p) == Ellipsis \o Strip(Window(text, kw, p)) \o Ellipsis

\* matches of one zone text, in finditer order
ZoneMatches(text, kw, timestamp, archive_url, type) ==
    LET occ == finditer(text, kw)
    IN  [k \in 1..Len(occ) |->
            MakeMatch(timestamp, archive_url, type,
                      CASE type = "TEXT" -> SnippetText(text, kw, occ[k])
                        [] type = "JS" -> SnippetJs(text, kw, occ[k])
                        [] OTHER -> SnippetComment(text, kw, occ[k]))]

RECURSIVE ScriptMatches(_, _, _, _)
ScriptMatches(nodes, kw, timestamp, archive_url) ==
    IF nodes = <<>> THEN <<>>
    ELSE LET n == Head(nodes)
         IN  (IF n.tag = "script" /\ n.s # <<>>
              THEN ZoneMatches(n.s, kw, timestamp, archive_url, "JS")
              ELSE <<>>) \o ScriptMatches(Tail(nodes), kw, timestamp, archive_url)

RECURSIVE CommentMatches(_, _, _, _)
CommentMatches(nodes, kw, timestamp, archive_url) ==
    IF nodes = <<>> THEN <<>>
    ELSE LET n == Head(nodes)
         IN  (IF n.tag = "comment" /\ ~Contains(n.s, ArchivedMarker)
              THEN ZoneMatches(n.s, kw, timestamp, archive_url, "COMMENT")
              ELSE <<>>) \o CommentMatches(Tail(nodes), kw, timestamp, archive_url)

\* extract_data(html, keyword, timestamp, archive_url): the list it returns,
\* or that it raised
extract_data(page, keyword, timestamp, archive_url) ==
    IF ~page.parsed THEN [raised |-> TRUE, value |-> <<>>]
    ELSE LET soup == Cleanup(page.nodes)
         IN  [raised |-> FALSE,
              value |-> ZoneMatches(TextContent(soup), keyword, timestamp, archive_url, "TEXT")
                        \o ScriptMatches(soup, keyword, timestamp, archive_url)
                        \o CommentMatches(soup, keyword, timestamp, archive_url)]

(***************************************************************************)
(* Events                                                                  *)
(***************************************************************************)
\* send_sse_event(data): f"data: {json.dumps(data)}\n\n"
send_sse_event(data) == <<"data: ", data, "\n\n">>

\* the JSON object inside an SSE frame
Payload(frame) == frame[2]

ContactingEvent(domain) ==
    [type |-> "progress",
     message |-> <<"Contacting Wayback Machine for: ", domain, "...">>]

NoSnapshotsEvent ==
    [type |-> "complete", message |-> "No snapshots found for this criteria."]

AnalyzingEvent(n, keyword) ==
    [type |-> "progress",
     message |-> <<"Analyzing ", n, " snapshots for '", keyword, "'...">>,
     currentSnapshot |-> 0, totalSnapshots |-> n]

\* a loop off by one in its counter
ProgressIndex_ahead(i) == i + 1

\* currentSnapshot of the progress event of loop position i (enumerate's i + 1)
ProgressIndex(i) == i

ScanningEvent(i, timestamp, n) ==
    [type |-> "progress",
     message |-> <<"Scanning snapshot: ", timestamp, "...">>,
     currentSnapshot |-> ProgressIndex(i), totalSnapshots |-> n]

MatchEvent(match) == [type |-> "match", match |-> match]

\* a completion message that ignores found_any
CompleteMessage_always(found) == "Scan complete."

CompleteMessage(found) ==
    IF found THEN "Scan complete." ELSE "Scan finished. No matches found."

CompleteEvent(found) == [type |-> "complete", message |-> CompleteMessage(found)]

ErrorEvent(exc) == [type |-> "error", error |-> exc]

\* an archive URL with its two parts swapped
ArchiveUrl_swapped(timestamp, original) ==
    "https://web.archive.org/web/" \o original \o "/" \o timestamp

\* f"https://web.archive.org/web/{timestamp}/{original}"
ArchiveUrl(timestamp, original) ==
    "https://web.archive.org/web/" \o timestamp \o "/" \o original

(***************************************************************************)
(* Exceptions and handlers                                                 *)
(***************************************************************************)
\* GeneratorExit derives from BaseException, everything else raised here
\* from Exception
IsException(exc) == exc # "GeneratorExit"

\* a per-capture handler that catches nothing
InnerCatches_none(exc) == FALSE

\* a per-capture handler written as a bare except
InnerCatches_bare(exc) == TRUE

\* line 223: except Exception
InnerCatches(exc) == IsException(exc)

\* no outermost handler
OuterCatches_none(exc) == FALSE

\* an outermost handler for the HTTP client's exceptions only
OuterCatches_requests(exc) == exc \in {"Timeout", "ConnectionError", "RequestException"}

\* line 239: except Exception
OuterCatches(exc) == IsException(exc)

\* a skipped capture that takes the next one with it
AfterSkip_two(i) == i + 2

\* line 225: continue
AfterSkip(i) == i + 1

\* a match loop that stops after its first match
RestAfterYield_none(list) == <<>>

\* line 217: what "for match in matches" still has to yield after one item
RestAfterYield(list) == Tail(list)

\* a zero-capture branch without its return
AfterEmptyDiscovery_fallthrough == "L182"

\* line 180: return
AfterEmptyDiscovery == "L180"

\* a request check that looks at the domain only
Validate_domainOnly(domain, keyword) == domain.present /\ domain.value # ""

\* line 156: both parameters present and non-empty
Validate(domain, keyword) ==
    /\ domain.present /\ domain.value # ""
    /\ keyword.present /\ keyword.value # <<>>

\* a producer that runs one event ahead of the writer
GenRunnable_buffered == Len(pending) <= 1

\* the generator runs only while the server waits in next(): every yielded
\* event has been taken and written
GenRunnable == pending = <<>>

\* where the generator is suspended, relative to the try blocks
YieldZone(at) ==
    IF at = "L217" THEN "inner" ELSE IF at = "L245" THEN "none" ELSE "outer"

(***************************************************************************)
(* State machine                                                           *)
(***************************************************************************)
DomainArgs == {[present |-> FALSE, value |-> ""], [present |-> TRUE, value |-> ""],
               [present |-> TRUE, value |-> "example.com"]}
KeywordArgs == {[present |-> FALSE, value |-> <<>>], [present |-> TRUE, value |-> <<>>],
                [present |-> TRUE, value |-> <<"k">>]}

FetchOutcomes ==
    {[kind |-> "exception", exc |-> e, page |-> [parsed |-> FALSE, nodes |-> <<>>]] :
        e \in {"Timeout", "ConnectionError"}}
    \cup {[kind |-> "status", exc |-> "", page |-> [parsed |-> FALSE, nodes |-> <<>>]]}
    \cup {[kind |-> "ok", exc |-> "", page |-> p] : p \in Pages}

NoInput == [fn |-> "none"]
NoOutput == [raised |-> FALSE, value |-> <<>>]

Init ==
    /\ pc = "idle"
    /\ request = [domain |-> [present |-> FALSE, value |-> ""],
                  keyword |-> [present |-> FALSE, value |-> <<>>]]
    /\ httpStatus = 0
    /\ httpBody = [kind |-> "none", error |-> ""]
    /\ cdxAnswer = [kind |-> "none", rows |-> <<>>]
    /\ snapshots = <<>>
    /\ idx = 1
    /\ found_any = FALSE
    /\ todo = <<>>
    /\ pending = <<>>
    /\ emitted = <<>>
    /\ owner = <<>>
    /\ received = <<>>
    /\ connected = TRUE
    /\ observed = FALSE
    /\ cdxCalls = 0
    /\ fetchLog = <<>>
    /\ skipped = {}
    /\ faultAt = 0
    /\ scanned = <<>>
    /\ input = NoInput
    /\ output = NoOutput

\* yield send_sse_event(data), the writer holding pend already; who is the
\* loop position the event belongs to, 0 outside the loop
Yield(data, who, pend) ==
    /\ pending' = Append(pend, send_sse_event(data))
    /\ emitted' = Append(emitted, send_sse_event(data))
    /\ owner' = Append(owner, who)

NoYield(pend) ==
    /\ pending' = pend
    /\ UNCHANGED <<emitted, owner>>

\* exc is raised in generate() inside the given try zone: the per-capture
\* handler continues the loop, the outer handler yields the error event,
\* otherwise the exception leaves the generator
Raise(exc, zone, pend) ==
    IF zone = "inner" /\ InnerCatches(exc)
    THEN /\ pc' = "L192"
         /\ idx' = AfterSkip(idx)
         /\ todo' = <<>>
         /\ skipped' = skipped \cup {idx}
         /\ NoYield(pend)
    ELSE IF zone \in {"inner", "outer"} /\ OuterCatches(exc)
    THEN /\ pc' = "L245"
         /\ Yield(ErrorEvent(exc), IF zone = "inner" THEN idx ELSE 0, pend)
         /\ UNCHANGED <<idx, todo, skipped>>
    ELSE /\ pc' = IF exc = "GeneratorExit" THEN "closed" ELSE "crashed"
         /\ NoYield(pend)
         /\ UNCHANGED <<idx, todo, skipped>>

MissingParameters == "Missing required parameters: domain and keyword"

\* lines 150-163, 246-254: the route handler
Scan ==
    /\ pc = "idle"
    /\ \E d \in DomainArgs, k \in KeywordArgs :
        /\ request' = [domain |-> d, keyword |-> k]
        /\ IF Validate(d, k)
           THEN /\ httpStatus' = 200
                /\ httpBody' = [kind |-> "text/event-stream", error |-> ""]
                /\ pc' = "L166"
           ELSE /\ httpStatus' = 400
                /\ httpBody' = [kind |-> "json", error |-> MissingParameters]
                /\ pc' = "rejected"
    /\ UNCHANGED <<scanned, input, output,
                   cdxAnswer, snapshots, idx, found_any, todo, pending, emitted, owner,
                   received, connected, observed, cdxCalls, fetchLog, skipped, faultAt>>

\* lines 166-171
Contact ==
    /\ pc = "L166" /\ GenRunnable
    /\ Yield(ContactingEvent(request.domain.value), 0, pending)
    /\ pc' = "L173"
    /\ UNCHANGED <<scanned, input, output,
                   request, httpStatus, httpBody, cdxAnswer, snapshots, idx, found_any, todo, received,
                   connected, observed, cdxCalls, fetchLog, skipped, faultAt>>

\* lines 173-180
Discover ==
    /\ pc = "L173" /\ GenRunnable
    /\ cdxCalls' = cdxCalls + 1
    /\ \E resp \in CdxResponses :
        LET r == fetch_snapshots(resp)
        IN  /\ cdxAnswer' = resp
            /\ IF r.raised
               THEN /\ Raise("RequestException", "outer", pending)
                    /\ UNCHANGED <<snapshots, found_any>>
               ELSE /\ snapshots' = r.value
                    /\ UNCHANGED <<idx, todo, skipped, found_any>>
                    /\ IF r.value = <<>>
                       THEN Yield(NoSnapshotsEvent, 0, pending) /\ pc' = AfterEmptyDiscovery
                       ELSE NoYield(pending) /\ pc' = "L182"
    /\ UNCHANGED <<scanned, input, output,
                   request, httpStatus, httpBody, received, connected, observed, fetchLog, faultAt>>

\* lines 182-189
Announce ==
    /\ pc = "L182" /\ GenRunnable
    /\ Yield(AnalyzingEvent(Len(snapshots), request.keyword.value), 0, pending)
    /\ found_any' = FALSE
    /\ pc' = "L192"
    /\ UNCHANGED <<scanned, input, output,
                   request, httpStatus, httpBody, cdxAnswer, snapshots, idx, todo, received, connected,
                   observed, cdxCalls, fetchLog, skipped, faultAt>>

\* lines 192-202 while a capture is left, lines 227-237 when the loop is exhausted
LoopHead ==
    /\ pc = "L192" /\ GenRunnable
    /\ IF idx <= Len(snapshots)
       THEN /\ Yield(ScanningEvent(idx, snapshots[idx].timestamp, Len(snapshots)),
                     idx, pending)
            /\ pc' = "L204"
       ELSE /\ Yield(CompleteEvent(found_any), 0, pending)
            /\ pc' = "L238"
    /\ UNCHANGED <<scanned, input, output,
                   request, httpStatus, httpBody, cdxAnswer, snapshots, idx, found_any, todo, received,
                   connected, observed, cdxCalls, fetchLog, skipped, faultAt>>

\* lines 204-208: the politeness delay, then the request is sent
FetchBegin ==
    /\ pc = "L204" /\ GenRunnable
    /\ fetchLog' = Append(fetchLog, idx)
    /\ pc' = "L208"
    /\ UNCHANGED <<scanned, input, output,
                   request, httpStatus, httpBody, cdxAnswer, snapshots, idx, found_any, todo, pending,
                   emitted, owner, received, connected, observed, cdxCalls, skipped,
                   faultAt>>

\* lines 208-221: the request returns or raises; the page is scanned and the
\* first match, if any, is yielded
FetchReturn ==
    /\ pc = "L208" /\ GenRunnable
    /\ \E out \in FetchOutcomes :
        LET timestamp == snapshots[idx].timestamp
            archive_url == ArchiveUrl(timestamp, snapshots[idx].original)
            r == extract_data(out.page, request.keyword.value, timestamp, archive_url)
        IN  /\ scanned' = IF out.kind = "ok" /\ ~r.raised
                           THEN Append(scanned, [capture |-> idx, matches |-> r.value])
                           ELSE scanned
            /\ CASE out.kind = "exception" ->
                       /\ Raise(out.exc, "inner", pending)
                       /\ UNCHANGED found_any
                 [] out.kind = "status" ->
                       /\ pc' = "L192"
                       /\ idx' = idx + 1
                       /\ skipped' = skipped \cup {idx}
                       /\ NoYield(pending)
                       /\ UNCHANGED <<todo, found_any>>
                 [] out.kind = "ok" /\ r.raised ->
                       /\ Raise("ParserError", "inner", pending)
                       /\ UNCHANGED found_any
                 [] out.kind = "ok" /\ ~r.raised /\ r.value = <<>> ->
                       /\ pc' = "L192"
                       /\ idx' = idx + 1
                       /\ NoYield(pending)
                       /\ UNCHANGED <<todo, found_any, skipped>>
                 [] out.kind = "ok" /\ ~r.raised /\ r.value # <<>> ->
                       /\ found_any' = TRUE
                       /\ Yield(MatchEvent(Head(r.value)), idx, pending)
                       /\ todo' = RestAfterYield(r.value)
                       /\ pc' = "L217"
                       /\ UNCHANGED <<idx, skipped>>
    /\ UNCHANGED <<input, output,
                   request, httpStatus, httpBody, cdxAnswer, snapshots, received, connected, observed,
                   cdxCalls, fetchLog, faultAt>>

\* lines 217-221: the next match of the capture, or the end of the iteration
NextMatch ==
    /\ pc = "L217" /\ GenRunnable
    /\ IF todo # <<>>
       THEN /\ Yield(MatchEvent(Head(todo)), idx, pending)
            /\ todo' = RestAfterYield(todo)
            /\ UNCHANGED <<pc, idx>>
       ELSE /\ NoYield(pending)
            /\ pc' = "L192"
            /\ idx' = idx + 1
            /\ UNCHANGED todo
    /\ UNCHANGED <<scanned, input, output,
                   request, httpStatus, httpBody, cdxAnswer, snapshots, found_any, received, connected,
                   observed, cdxCalls, fetchLog, skipped, faultAt>>

\* lines 180, 237, 244: the generator returns and the response ends
Finish ==
    /\ pc \in {"L180", "L238", "L245"} /\ GenRunnable
    /\ pc' = "done"
    /\ UNCHANGED <<scanned, input, output,
                   request, httpStatus, httpBody, cdxAnswer, snapshots, idx, found_any, todo, pending,
                   emitted, owner, received, connected, observed, cdxCalls, fetchLog,
                   skipped, faultAt>>

Streaming == pc \notin {"idle", "rejected", "done", "closed", "crashed"}

\* lines 246-254: the server writes the event it got from the generator
Flush ==
    /\ Streaming /\ pending # <<>> /\ connected
    /\ received' = Append(received, Head(pending))
    /\ pending' = Tail(pending)
    /\ UNCHANGED <<scanned, input, output,
                   pc, request, httpStatus, httpBody, cdxAnswer, snapshots, idx, found_any, todo, emitted,
                   owner, connected, observed, cdxCalls, fetchLog, skipped, faultAt>>

\* the client goes away
Disconnect ==
    /\ Streaming /\ connected
    /\ connected' = FALSE
    /\ UNCHANGED <<scanned, input, output,
                   pc, request, httpStatus, httpBody, cdxAnswer, snapshots, idx, found_any, todo, pending,
                   emitted, owner, received, observed, cdxCalls, fetchLog, skipped,
                   faultAt>>

\* a write to the closed connection that the transport still accepts
WriteLost ==
    /\ Streaming /\ pending # <<>> /\ ~connected
    /\ pending' = Tail(pending)
    /\ UNCHANGED <<scanned, input, output,
                   pc, request, httpStatus, httpBody, cdxAnswer, snapshots, idx, found_any, todo, emitted,
                   owner, received, connected, observed, cdxCalls, fetchLog, skipped,
                   faultAt>>

\* lines 246-247: the write fails and the server closes the generator, which
\* raises GeneratorExit at the yield it is suspended on
ObserveDisconnect ==
    /\ Streaming /\ pending # <<>> /\ ~connected
    /\ observed' = TRUE
    /\ Raise("GeneratorExit", YieldZone(pc), <<>>)
    /\ UNCHANGED <<scanned, input, output,
                   request, httpStatus, httpBody, cdxAnswer, snapshots, found_any, received, connected,
                   cdxCalls, fetchLog, faultAt>>

\* an exception raised by a statement of generate() outside the per-capture
\* try block (lines 166-202, 227-237)
PipelineFault ==
    /\ pc \in {"L166", "L173", "L182", "L192"} /\ GenRunnable
    /\ faultAt = 0
    /\ faultAt' = CASE pc = "L166" -> 168 [] pc = "L173" -> 173
                    [] pc = "L182" -> 182 [] OTHER -> 192
    /\ Raise("RuntimeError", "outer", pending)
    /\ UNCHANGED <<scanned, input, output,
                   request, httpStatus, httpBody, cdxAnswer, snapshots, found_any, received, connected,
                   observed, cdxCalls, fetchLog>>

Next ==
    \/ Scan
    \/ Contact
    \/ Discover
    \/ Announce
    \/ LoopHead
    \/ FetchBegin
    \/ FetchReturn
    \/ NextMatch
    \/ Finish
    \/ Flush
    \/ Disconnect
    \/ WriteLost
    \/ ObserveDisconnect

Spec == Init /\ [][Next]_vars

NextFault == Next \/ PipelineFault

SpecFault == Init /\ [][NextFault]_vars

(***************************************************************************)
(* Direct calls of the two functions                                       *)
(***************************************************************************)
DirectoryInputs ==
    {[fn |-> "fetch_snapshots", resp |-> [kind |-> k, rows |-> <<>>]] :
        k \in {"exception", "status", "badjson", "object"}}
    \cup {[fn |-> "fetch_snapshots", resp |-> [kind |-> "list", rows |-> d]] :
            d \in SeqsUpTo(ProbeRows, MaxRows + 1)}

HayChars == {"k", "K", " ", "\n"}
KeywordChars == {"k", "x", " ", "\n"}

\* more than CONTEXT_CHARS characters, with a space where a window can start
\* or end
Filler == [i \in 1..(CONTEXT_CHARS + 1) |->
              IF i \in {2, CONTEXT_CHARS} THEN " " ELSE "x"]

\* zone texts: every short text, short texts with long surroundings, and
\* short texts followed by the archive's footer marker
Hays ==
    SeqsUpTo(HayChars, MaxHay)
    \cup {Filler \o c \o Filler : c \in SeqsUpTo(HayChars, 2)}
    \cup {c \o ArchivedMarker : c \in SeqsUpTo(HayChars, 2)}

OtherSrc == <<"/", "j">>
ArchiveSrc == <<"/", "/">> \o ArchiveHost \o <<"/", "j">>

\* the page's own zones a string can be in
ZonesWith(s) ==
    {Node("text", "main", <<>>, s), Node("script", "", <<>>, s),
     Node("comment", "", <<>>, s)}

\* the places a string can have in a document
NodesWith(s) ==
    ZonesWith(s)
    \cup {Node("text", "wm-ipp", <<>>, s), Node("script", "", OtherSrc, s),
          Node("script", "", ArchiveSrc, s), Node("script", "donato", <<>>, s),
          Node("comment", "wm-ipp-base", <<>>, s)}

SmallNodes == NodesWith(<<"k">>) \cup {Node("text", "main", <<>>, <<"x">>)}

\* documents of one zone with any zone text, and of several small nodes
ProbeDocuments ==
    {<<n>> : n \in UNION {ZonesWith(h) : h \in Hays}}
    \cup SeqsUpTo(SmallNodes, MaxNodes)

ProbeTimestamp == "20200101000000"
ProbeUrl == ArchiveUrl(ProbeTimestamp, "example.com/")

ExtractInputs ==
    {[fn |-> "extract_data", page |-> [parsed |-> TRUE, nodes |-> d], keyword |-> k] :
        d \in ProbeDocuments, k \in SeqsUpTo(KeywordChars, MaxKeyword)}

FnInputs == DirectoryInputs \cup ExtractInputs

InitFn ==
    /\ pc = "call"
    /\ input \in FnInputs
    /\ output = NoOutput
    /\ request = [domain |-> [present |-> FALSE, value |-> ""],
                  keyword |-> [present |-> FALSE, value |-> <<>>]]
    /\ httpStatus = 0
    /\ httpBody = [kind |-> "none", error |-> ""]
    /\ cdxAnswer = [kind |-> "none", rows |-> <<>>]
    /\ snapshots = <<>>
    /\ idx = 1
    /\ found_any = FALSE
    /\ todo = <<>>
    /\ pending = <<>>
    /\ emitted = <<>>
    /\ owner = <<>>
    /\ received = <<>>
    /\ connected = TRUE
    /\ observed = FALSE
    /\ cdxCalls = 0
    /\ fetchLog = <<>>
    /\ skipped = {}
    /\ faultAt = 0
    /\ scanned = <<>>

\* lines 22-61, called with the index answering input.resp
CallFetchSnapshots ==
    /\ pc = "call" /\ input.fn = "fetch_snapshots"
    /\ output' = fetch_snapshots(input.resp)
    /\ pc' = "returned"
    /\ UNCHANGED <<request, httpStatus, httpBody, cdxAnswer, snapshots, idx, found_any,
                   todo, pending, emitted, owner, received, connected, observed,
                   cdxCalls, fetchLog, skipped, faultAt, scanned, input>>

\* lines 64-139, called with the document the parser makes of html
CallExtractData ==
    /\ pc = "call" /\ input.fn = "extract_data"
    /\ output' = extract_data(input.page, input.keyword, ProbeTimestamp, ProbeUrl)
    /\ pc' = "returned"
    /\ UNCHANGED <<request, httpStatus, httpBody, cdxAnswer, snapshots, idx, found_any,
                   todo, pending, emitted, owner, received, connected, observed,
                   cdxCalls, fetchLog, skipped, faultAt, scanned, input>>

NextFn ==
    \/ CallFetchSnapshots
    \/ CallExtractData

SpecFn == InitFn /\ [][NextFn]_vars

\* the generator keeps running, every network call returns, and the server
\* keeps writing to a client that is still there
SpecFair ==
    /\ Init
    /\ [][NextFault]_vars
    /\ WF_vars(Scan)
    /\ WF_vars(Contact)
    /\ WF_vars(Discover)
    /\ WF_vars(Announce)
    /\ WF_vars(LoopHead)
    /\ WF_vars(FetchBegin)
    /\ WF_vars(FetchReturn)
    /\ WF_vars(NextMatch)
    /\ WF_vars(Finish)
    /\ WF_vars(Flush)

(***************************************************************************)
(* Properties                                                              *)
(***************************************************************************)
TypeOf(frame) == Payload(frame).type

IsTerminal(frame) == TypeOf(frame) \in {"complete", "error"}

\* the progress event sent at the top of a loop iteration
IsScanning(frame) ==
    /\ TypeOf(frame) = "progress"
    /\ "currentSnapshot" \in DOMAIN Payload(frame)
    /\ Payload(frame).currentSnapshot >= 1

Positions(type) == {k \in 1..Len(emitted) : TypeOf(emitted[k]) = type}

\* C1: a stream holds at most one terminal event (complete or error), it is
\* the last event, and every event before it is a progress or a match event.
C1_TerminalIsLast ==
    \A k \in 1..Len(emitted) :
        /\ TypeOf(emitted[k]) \in {"progress", "match", "complete", "error"}
        /\ IsTerminal(emitted[k]) => k = Len(emitted)

C1_Witness ==
    /\ pc = "done"
    /\ Positions("match") # {}
    /\ IsTerminal(emitted[Len(emitted)])

\* C2: once a request has passed validation, the client either receives a
\* terminal event or has disconnected; and a stream that ends while the
\* client is still connected has delivered a terminal event as its last one.
C2_TerminalDelivered ==
    /\ (httpStatus = 200) ~>
           (\/ ~connected
            \/ received # <<>> /\ IsTerminal(received[Len(received)]))
    /\ [](pc \in {"done", "crashed", "closed"} /\ connected =>
             received # <<>> /\ IsTerminal(received[Len(received)]))

C2_Witness ==
    /\ pc = "done" /\ connected
    /\ Len(received) >= 4
    /\ IsTerminal(received[Len(received)])

\* C3: every match event of capture c comes after the progress event of
\* capture c and before the progress event of capture c + 1, and the match
\* events of different captures are not interleaved.
C3_MatchesBetweenProgress ==
    \A p \in Positions("match") :
        /\ \E q \in 1..(p - 1) :
              IsScanning(emitted[q]) /\ Payload(emitted[q]).currentSnapshot = owner[p]
        /\ \A q \in 1..Len(emitted) :
              IsScanning(emitted[q]) =>
                  IF Payload(emitted[q]).currentSnapshot <= owner[p] THEN q < p ELSE q > p
        /\ \A q \in Positions("match") : q < p => owner[q] <= owner[p]

C3_Witness ==
    \E p, q, r \in 1..Len(emitted) :
        /\ p < q /\ q < r
        /\ TypeOf(emitted[p]) = "match" /\ owner[p] = 1
        /\ IsScanning(emitted[q]) /\ Payload(emitted[q]).currentSnapshot = 2
        /\ TypeOf(emitted[r]) = "match" /\ owner[r] = 2

\* C4: when discovery yields no capture, whatever the directory answered,
\* the stream is the contacting progress event followed by the no-snapshots
\* complete event, without any error event and without any capture fetch.
DiscoveredNone == cdxCalls > 0 /\ snapshots = <<>>

C4_EmptyDiscovery ==
    DiscoveredNone =>
        /\ emitted = <<send_sse_event(ContactingEvent(request.domain.value)),
                       send_sse_event(NoSnapshotsEvent)>>
        /\ Positions("error") = {}
        /\ fetchLog = <<>>
        /\ pc = "done" /\ connected => received = emitted

C4_Witness ==
    /\ DiscoveredNone /\ pc = "done" /\ connected
    /\ cdxAnswer = [kind |-> "list", rows |-> <<HeaderRow, ShortRow>>]
    /\ Len(received) = 2

\* C5: a capture whose fetch or scan fails gets no event beyond its progress
\* event, the loop moves on to the next capture, no error event is sent, and
\* the scan ends with complete; when every capture fails the complete event
\* carries the no-matches message.
C5_FailedCaptureSkipped ==
    /\ \A c \in skipped :
          /\ {k \in 1..Len(emitted) : owner[k] = c /\ ~IsScanning(emitted[k])} = {}
          /\ idx > c
    /\ skipped # {} =>
          /\ Positions("error") = {}
          /\ pc = "done" =>
                /\ TypeOf(emitted[Len(emitted)]) = "complete"
                /\ skipped = 1..Len(snapshots) =>
                      Payload(emitted[Len(emitted)]).message
                          = "Scan finished. No matches found."

C5_Witness ==
    /\ pc = "done"
    /\ Len(snapshots) = 2
    /\ skipped = {1}
    /\ Positions("match") # {}

\* C6: the complete event sent after the loop carries "Scan complete." if
\* and only if a match event was sent before it, and the no-matches message
\* otherwise.
C6_CompleteMessage ==
    \A k \in Positions("complete") :
        Payload(emitted[k]) # NoSnapshotsEvent =>
            LET matched == \E j \in 1..(k - 1) : TypeOf(emitted[j]) = "match"
            IN  Payload(emitted[k]).message =
                    (IF matched THEN "Scan complete."
                     ELSE "Scan finished. No matches found.")

C6_Witness ==
    /\ pc = "done"
    /\ Positions("match") # {}
    /\ Payload(emitted[Len(emitted)]).message = "Scan complete."

\* C7: a fault raised in generate() outside the per-capture try block gives
\* exactly one error event carrying the exception text; it is the last
\* event, no complete event is sent, and no capture is fetched twice.
C7_FaultGivesError ==
    faultAt # 0 =>
        /\ Cardinality(Positions("error")) = 1
        /\ Payload(emitted[Len(emitted)]) = ErrorEvent("RuntimeError")
        /\ Positions("complete") = {}
        /\ pc \in {"L245", "done", "closed"}
        /\ \A a, b \in 1..Len(fetchLog) : a < b => fetchLog[a] < fetchLog[b]

C7_Witness ==
    /\ faultAt = 192
    /\ pc = "done"
    /\ Positions("match") # {}
    /\ Len(fetchLog) = 1

\* C8: a request whose domain or keyword is missing or empty is answered
\* with status 400 and an error body; no stream is opened, no event is sent,
\* and neither the directory nor any capture is requested.
Missing(arg, empty) == ~arg.present \/ arg.value = empty

C8_RejectedBeforeStreaming ==
    pc # "idle" /\ (Missing(request.domain, "") \/ Missing(request.keyword, <<>>)) =>
        /\ pc = "rejected"
        /\ httpStatus = 400
        /\ httpBody = [kind |-> "json", error |-> MissingParameters]
        /\ emitted = <<>>
        /\ cdxCalls = 0
        /\ fetchLog = <<>>

C8_Witness ==
    /\ pc = "rejected"
    /\ request.domain.value = "example.com"
    /\ request.keyword = [present |-> TRUE, value |-> <<>>]

\* C9: once the server has seen the client's disconnect, the generator is
\* closed: neither handler swallows the disconnect, no event is produced
\* because of it, and no further capture fetch is started.
C9_DisconnectAborts ==
    /\ [](observed => pc = "closed")
    /\ [][observed' => emitted' = emitted /\ fetchLog' = fetchLog]_vars

C9_Witness ==
    /\ observed
    /\ pc = "closed"
    /\ Len(snapshots) = 2 /\ idx = 1
    /\ Positions("match") # {}

\* C10: at most one yielded event is waiting to be written, and while the
\* delay and fetch of a capture are under way every event yielded so far
\* has been handed to the server.
C10_Backpressure ==
    /\ Len(pending) <= 1
    /\ pc = "L208" => pending = <<>>

C10_Witness ==
    /\ pc = "L208" /\ idx = 2
    /\ \E k \in Positions("match") : owner[k] = 1

\* C16: a scan of N >= 1 captures that runs to its end without a fault sends
\* exactly N per-capture progress events, in discovery order; the k-th names
\* the k-th capture's timestamp with currentSnapshot = k and totalSnapshots
\* = N, and exactly one progress event with currentSnapshot = 0 and
\* totalSnapshots = N comes before them.
ScanningPositions == {p \in 1..Len(emitted) : IsScanning(emitted[p])}

AnnouncePositions ==
    {p \in Positions("progress") :
        /\ "currentSnapshot" \in DOMAIN Payload(emitted[p])
        /\ Payload(emitted[p]).currentSnapshot = 0}

C16_ProgressPerCapture ==
    pc = "done" /\ faultAt = 0 /\ Len(snapshots) >= 1 =>
        LET n == Len(snapshots)
        IN  /\ Cardinality(ScanningPositions) = n
            /\ \A p \in ScanningPositions :
                  LET e == Payload(emitted[p])
                  IN  /\ e.currentSnapshot \in 1..n
                      /\ e.totalSnapshots = n
                      /\ e.message = <<"Scanning snapshot: ",
                                       snapshots[e.currentSnapshot].timestamp, "...">>
            /\ \A p, q \in ScanningPositions :
                  p < q => Payload(emitted[p]).currentSnapshot
                               < Payload(emitted[q]).currentSnapshot
            /\ Cardinality(AnnouncePositions) = 1
            /\ \A a \in AnnouncePositions :
                  /\ Payload(emitted[a]).totalSnapshots = n
                  /\ \A p \in ScanningPositions : a < p

C16_Witness ==
    /\ pc = "done" /\ faultAt = 0
    /\ Len(snapshots) = 2
    /\ skipped = {1}
    /\ Cardinality(ScanningPositions) = 2

\* C17: the match events sent for a scanned capture are the matches the
\* zone scanner returned for it, each once and in the scanner's order
\* (those not yet sent are still waiting in the loop), and that order is
\* all TEXT matches, then all JS matches, then all COMMENT matches.
RECURSIVE EmittedMatches(_, _)
EmittedMatches(c, n) ==
    IF n = 0 THEN <<>>
    ELSE EmittedMatches(c, n - 1)
         \o (IF TypeOf(emitted[n]) = "match" /\ owner[n] = c
             THEN <<Payload(emitted[n]).match>> ELSE <<>>)

ZoneRank(type) == CASE type = "TEXT" -> 1 [] type = "JS" -> 2 [] OTHER -> 3

LastScanningBefore(p) ==
    CHOOSE q \in ScanningPositions :
        q < p /\ \A r \in ScanningPositions : r < p => r <= q

C18_MatchNamesItsCapture ==
    \A p \in Positions("match") :
        /\ \E q \in ScanningPositions : q < p
        /\ LET c == Payload(emitted[LastScanningBefore(p)]).currentSnapshot
               m == Payload(emitted[p]).match
           IN  /\ c \in 1..Len(snapshots)
               /\ m.timestamp = snapshots[c].timestamp
               /\ m.archiveUrl = "https://web.archive.org/web/" \o snapshots[c].timestamp
                                     \o "/" \o snapshots[c].original
               /\ m.matchType \in {"TEXT", "JS", "COMMENT"}

C18_Witness ==
    \E p, q \in Positions("match") :
        /\ Payload(emitted[p]).match.timestamp = "20200101000000"
        /\ Payload(emitted[q]).match.archiveUrl
               = "https://web.archive.org/web/20210101000000/example.com/login"
        /\ p < q

\* C19: fetch_snapshots never raises; it returns the empty list for an
\* answer that is not a 200 list of at least two rows and when the request
\* or the parsing raises, and otherwise one capture for each row after the
\* first that has at least two fields, in the rows' order.
Returned(fn) == pc = "returned" /\ input.fn = fn

NotSubscriptable(row) == row.t = "num" \/ (row.t = "dict" /\ Len(row.v) >= 2)

C19_DirectoryResult ==
    Returned("fetch_snapshots") =>
        LET rows == input.resp.rows
            good == {k \in 2..Len(rows) : Len(rows[k].v) >= 2}
            out == output.value
        IN  /\ ~output.raised
            /\ IF \/ input.resp.kind # "list"
                  \/ Len(rows) < 2
                  \/ \E k \in 2..Len(rows) : NotSubscriptable(rows[k])
               THEN out = <<>>
               ELSE /\ Len(out) = Cardinality(good)
                    /\ \E f \in [1..Len(out) -> good] :
                          /\ \A i, j \in 1..Len(out) : i < j => f[i] < f[j]
                          /\ \A j \in 1..Len(out) :
                                out[j] = [timestamp |-> rows[f[j]].v[1],
                                          original |-> rows[f[j]].v[2]]

C19_Witness ==
    /\ Returned("fetch_snapshots")
    /\ input.resp.rows = <<HeaderRow, Row2, LongRow>>
    /\ Len(output.value) = 2
    /\ output.value[1].original = "example.com/login"

\* C20: every capture fetch_snapshots returns has a non-empty timestamp and
\* a non-empty original URL, and none of them is the header row.
C20_CapturesNonEmpty ==
    Returned("fetch_snapshots") =>
        \A j \in 1..Len(output.value) :
            /\ output.value[j].timestamp # ""
            /\ output.value[j].original # ""
            /\ input.resp.rows[1] = HeaderRow =>
                  output.value[j] # [timestamp |-> "timestamp", original |-> "original"]

\* C15: an empty keyword or an empty zone text gives no occurrence and no
\* error: extract_data with the keyword '' returns the empty list.
C15_EmptyKeywordNoMatch ==
    Returned("extract_data") =>
        /\ ~output.raised
        /\ input.keyword = <<>> => output.value = <<>>
        /\ (\A k \in 1..Len(input.page.nodes) : input.page.nodes[k].s = <<>>)
               => output.value = <<>>

\* the zone texts of a cleaned document, in the order they are searched
ScriptZone(soup) ==
    LET Searched(n) == n.tag = "script" /\ n.s # <<>>
    IN  SelectSeq(soup, Searched)

CommentZone(soup) ==
    LET Searched(n) == n.tag = "comment" /\ ~Contains(n.s, ArchivedMarker)
    IN  SelectSeq(soup, Searched)

ZoneTexts(soup) ==
    <<[type |-> "TEXT", text |-> TextContent(soup)]>>
    \o [k \in 1..Len(ScriptZone(soup)) |-> [type |-> "JS", text |-> ScriptZone(soup)[k].s]]
    \o [k \in 1..Len(CommentZone(soup)) |-> [type |-> "COMMENT", text |-> CommentZone(soup)[k].s]]

\* the occurrences of kw in the zone texts: zone type, zone text, 1-based start
RECURSIVE OccurrencesOf(_, _)
OccurrencesOf(zones, kw) ==
    IF zones = <<>> THEN <<>>
    ELSE LET z == Head(zones)
             occ == finditer(z.text, kw)
         IN  [i \in 1..Len(occ) |-> [type |-> z.type, text |-> z.text, p |-> occ[i]]]
             \o OccurrencesOf(Tail(zones), kw)

InputOccurrences == OccurrencesOf(ZoneTexts(Cleanup(input.page.nodes)), input.keyword)

\* the characters of the zone text that an occurrence matched
Matched(o, kw) == Slice(o.text, o.p - 1, (o.p - 1) + Len(kw))

\* C14: in every zone the snippet of an occurrence is '...' + W + '...', W being
\* the window of 30 characters either side with whitespace runs collapsed to
\* one space and leading and trailing whitespace stripped.
C14_SnippetNormalised ==
    Returned("extract_data") /\ input.keyword # <<>> =>
        /\ Len(output.value) = Len(InputOccurrences)
        /\ \A j \in 1..Len(output.value) :
              LET o == InputOccurrences[j]
              IN  /\ output.value[j].matchType = o.type
                  /\ output.value[j].snippet =
                        Ellipsis
                        \o Strip(CollapseWhitespace(Window(o.text, input.keyword, o.p)))
                        \o Ellipsis

\* occurrences found in one zone text do not overlap, come in increasing start
\* order and are occurrences
Disjoint(text, kw) ==
    LET occ == finditer(text, kw)
    IN  /\ \A i \in 1..Len(occ) : MatchesAt(text, kw, occ[i])
        /\ \A i \in 1..(Len(occ) - 1) : occ[i] + Len(kw) <= occ[i + 1]

SnippetsHoldOccurrences ==
    /\ \A k \in 1..Len(ZoneTexts(Cleanup(input.page.nodes))) :
          Disjoint(ZoneTexts(Cleanup(input.page.nodes))[k].text, input.keyword)
    /\ Len(output.value) = Len(InputOccurrences)
    /\ \A j \in 1..Len(output.value) :
          /\ output.value[j].matchType = InputOccurrences[j].type
          /\ Contains(output.value[j].snippet, Matched(InputOccurrences[j], input.keyword))

PlainKeyword(kw) ==
    /\ kw # <<>>
    /\ ~IsSpace(kw[1]) /\ ~IsSpace(kw[Len(kw)])
    /\ \A i \in 1..Len(kw) : kw[i] # "\n"

\* C13 as stated: for every non-empty keyword, also one that begins or ends
\* with whitespace or contains a newline, the occurrences of each zone are
\* disjoint and increasing and every snippet contains the matched characters.
C13_AnyKeyword ==
    Returned("extract_data") /\ input.keyword # <<>> => SnippetsHoldOccurrences

\* C13: for every keyword that contains no newline and neither begins nor ends
\* with whitespace, the occurrences found in each zone are non-overlapping and
\* in increasing start order, and each snippet contains the matched occurrence
\* with its original casing.
C13_SnippetHoldsOccurrence ==
    Returned("extract_data") /\ PlainKeyword(input.keyword) => SnippetsHoldOccurrences

C13_Witness ==
    /\ Returned("extract_data")
    /\ input.keyword = <<"k">>
    /\ Len(output.value) >= 2
    /\ \E j \in 1..Len(output.value) : Contains(output.value[j].snippet, <<"K">>)

\* what the archive adds to a page: toolbar elements and what is nested in
\* them, scripts loaded from the archive, the footer comment
ArchiveAdded(n) ==
    \/ n.id \in {"wm-ipp-base", "wm-ipp", "donato"}
    \/ n.tag = "script" /\ Contains(n.src, <<"a", "r", "c", "h", "i", "v", "e", ".", "o", "r", "g">>)
    \/ n.tag = "comment"
       /\ Contains(n.s, <<"F", "I", "L", "E", " ", "A", "R", "C", "H", "I", "V", "E", "D", " ", "O", "N">>)

OwnContent(nodes) ==
    LET Own(n) == ~ArchiveAdded(n)
    IN  SelectSeq(nodes, Own)

\* C12: content the archive injected contributes no match of any type, even
\* when it contains the keyword: the result is the result for the page without
\* that content, and a page holding nothing else gives no match.
C12_InjectedNeverMatches ==
    Returned("extract_data") =>
        /\ output = extract_data([parsed |-> TRUE, nodes |-> OwnContent(input.page.nodes)],
                                 input.keyword, ProbeTimestamp, ProbeUrl)
        /\ (input.keyword # <<>> /\ OwnContent(input.page.nodes) = <<>>)
               => output.value = <<>>

C12_Witness ==
    /\ Returned("extract_data")
    /\ input.keyword # <<>>
    /\ \E k \in 1..Len(input.page.nodes) :
          /\ ArchiveAdded(input.page.nodes[k])
          /\ finditer(input.page.nodes[k].s, input.keyword) # <<>>
    /\ Len(output.value) = 1

\* kw occurs in text, letter case ignored
Occurs(text, kw) == \E p \in 1..(Len(text) + 1) : MatchesAt(text, kw, p)

\* what a reader of the page sees: the non-blank strings of the body's text
\* nodes, trimmed, one space between them, whitespace runs as one space
RECURSIVE VisibleWords(_)
VisibleWords(nodes) ==
    IF nodes = <<>> THEN <<>>
    ELSE LET n == Head(nodes)
             rest == VisibleWords(Tail(nodes))
         IN  IF n.tag = "text" /\ Strip(n.s) # <<>>
             THEN (IF rest = <<>> THEN Strip(n.s) ELSE Strip(n.s) \o <<" ">> \o rest)
             ELSE rest

VisibleText(nodes) == CollapseWhitespace(VisibleWords(nodes))

InVisibleText == Occurs(VisibleText(OwnContent(input.page.nodes)), input.keyword)

InNodes(tag) ==
    \E k \in 1..Len(OwnContent(input.page.nodes)) :
        /\ OwnContent(input.page.nodes)[k].tag = tag
        /\ Occurs(OwnContent(input.page.nodes)[k].s, input.keyword)

MatchTypes == {output.value[j].matchType : j \in 1..Len(output.value)}

\* C11: zone isolation: a keyword that occurs only in inline script bodies gives
\* no TEXT or COMMENT match, one that occurs only in the visible body text no
\* JS or COMMENT match, one that occurs only in comments no TEXT or JS match.
C11_ZoneIsolation ==
    Returned("extract_data") =>
        /\ (InNodes("script") /\ ~InVisibleText /\ ~InNodes("comment"))
               => MatchTypes \subseteq {"JS"}
        /\ (InVisibleText /\ ~InNodes("script") /\ ~InNodes("comment"))
               => MatchTypes \subseteq {"TEXT"}
        /\ (InNodes("comment") /\ ~InVisibleText /\ ~InNodes("script"))
               => MatchTypes \subseteq {"COMMENT"}

C11_Witness ==
    /\ Returned("extract_data")
    /\ InNodes("script") /\ ~InVisibleText /\ ~InNodes("comment")
    /\ \E k \in 1..Len(input.page.nodes) :
          input.page.nodes[k].tag = "text" /\ input.page.nodes[k].id = "main"
    /\ MatchTypes = {"JS"}

====
